---- MODULE Spec2Model ----
(***************************************************************************)
(* Model of the decorators of examples/publisher/main.go (TransformPublisher,*)
(* MultiPublisher, BatchPublisher) and examples/doer/main.go                *)
(* (RetryHTTPClient).  Every decorator wraps a mocked inner implementer     *)
(* whose results are chosen per call; each completed outer call is recorded *)
(* together with the inner calls it made and the value it returned.         *)
(***************************************************************************)
EXTENDS Integers, Sequences, FiniteSets, TLC

\* ---------------------------------------------------------------- bounds
MaxBatch == 3        \* largest batchSize given to BatchPublisher
MaxBatchCalls == 6   \* Publish calls made on one BatchPublisher
MaxPubs == 3         \* publishers wrapped by one MultiPublisher
MaxMultiCalls == 1   \* Publish calls made on one MultiPublisher
MaxTransformCalls == 2 \* Publish calls made on one TransformPublisher
MaxRetries == 3      \* largest retries given to RetryHTTPClient
MaxDoCalls == 1      \* Do calls made on one RetryHTTPClient

\* ---------------------------------------------------------------- values
\* Go's nil (nil error, nil *http.Response)
Nil == "nil"
\* messages handed to Publish; one of them contains the batch delimiter
Msgs == {"a", "b", "a,b"}
\* non-nil errors an inner implementer may return
Errs == {"e1", "e2"}
\* what an inner Publisher's Publish may return
PubResults == {Nil} \cup Errs
\* requests handed to Do
Reqs == {"q1", "q2"}
\* non-nil responses an inner HTTPClient may return
Resps == {"r1", "r2"}
\* what an inner HTTPClient's Do may return: a response with a nil error, or
\* an error with a nil or a non-nil response
DoSuccesses == [res : Resps, err : {Nil}]
DoFailures == {[res |-> Nil, err |-> "e1"], [res |-> "r1", err |-> "e2"]}
DoResults == DoSuccesses \cup DoFailures

VARIABLES
    batchSize,      \* BatchPublisher: captured batchSize
    msgs,           \* BatchPublisher: captured buffer msgs
    batchCalls,     \* completed Publish calls on the BatchPublisher
    nPubs,          \* MultiPublisher: len(ps)
    multiCalls,     \* completed Publish calls on the MultiPublisher
    tfn,            \* TransformPublisher: captured transform function
    transformCalls, \* completed Publish calls on the TransformPublisher
    retries,        \* RetryHTTPClient: captured retries
    doCalls         \* completed Do calls on the RetryHTTPClient

batchVars == <<batchSize, msgs, batchCalls>>
multiVars == <<nPubs, multiCalls>>
transformVars == <<tfn, transformCalls>>
retryVars == <<retries, doCalls>>
vars == <<batchSize, msgs, batchCalls, nPubs, multiCalls, tfn, transformCalls,
          retries, doCalls>>

\* ------------------------------------------------------- BatchPublisher
\* strings.Join(elems, sep)
RECURSIVE Join(_, _)
Join(elems, sep) ==
    IF Len(elems) = 0 THEN ""
    ELSE IF Len(elems) = 1 THEN elems[1]
    ELSE elems[1] \o sep \o Join(Tail(elems), sep)

\* mutant of AppendMsg: the new message is put in front of the buffer
PrependMsg(buf, msg) == <<msg>> \o buf

\* msgs = append(msgs, msg)
AppendMsg(buf, msg) == Append(buf, msg)

\* mutant of BatchFull: flushes one message early
BatchFullEarly(buf, size) == Len(buf) + 1 = size

\* len(msgs) == batchSize
BatchFull(buf, size) == Len(buf) = size

\* The PublishFn closure of BatchPublisher, run on buffer buf with input msg;
\* inner is what p.Publish returns if it is called.  Yields the buffer left
\* behind, the calls made to p.Publish and the returned error.
BatchPublishFn(buf, size, msg, inner) ==
    LET appended == AppendMsg(buf, msg)
    IN  IF BatchFull(appended, size)
        THEN LET batchMsg == Join(appended, ",")
             IN  [msgs  |-> appended,
                  calls |-> <<[arg |-> batchMsg, result |-> inner]>>,
                  ret   |-> inner]
        ELSE [msgs |-> appended, calls |-> <<>>, ret |-> Nil]

\* BatchPublisher(p, batchSize): any int is accepted, the buffer starts empty
InitBatch ==
    /\ batchSize \in -1 .. MaxBatch
    /\ msgs = <<>>
    /\ batchCalls = <<>>

\* one call bp.Publish(msg)
BatchPublish ==
    /\ Len(batchCalls) < MaxBatchCalls
    /\ \E msg \in Msgs, inner \in PubResults :
          LET out == BatchPublishFn(msgs, batchSize, msg, inner)
          IN  /\ msgs' = out.msgs
              /\ batchCalls' = Append(batchCalls,
                     [msg |-> msg, calls |-> out.calls, ret |-> out.ret])
    /\ UNCHANGED <<batchSize, multiVars, transformVars, retryVars>>

\* ------------------------------------------------------- MultiPublisher
\* mutant of IsErr: an inner error is not noticed
IgnoreErr(err) == FALSE

\* err != nil
IsErr(err) == err # Nil

\* The range loop of MultiPublisher's PublishFn from publisher i on; results[j]
\* is what ps[j].Publish returns if it is called, calls the calls made so far.
RECURSIVE MultiLoop(_, _, _, _, _)
MultiLoop(i, n, msg, results, calls) ==
    IF i > n THEN [calls |-> calls, ret |-> Nil]
    ELSE LET err == results[i]
             made == Append(calls, [pub |-> i, arg |-> msg, result |-> err])
         IN  IF IsErr(err) THEN [calls |-> made, ret |-> err]
             ELSE MultiLoop(i + 1, n, msg, results, made)

\* mutant of MultiPublishFn: the first publisher is skipped
MultiPublishFromSecond(n, msg, results) == MultiLoop(2, n, msg, results, <<>>)

\* The PublishFn closure of MultiPublisher over n publishers
MultiPublishFn(n, msg, results) == MultiLoop(1, n, msg, results, <<>>)

\* MultiPublisher(ps...): any number of publishers, none included
InitMulti ==
    /\ nPubs \in 0 .. MaxPubs
    /\ multiCalls = <<>>

\* one call mulp.Publish(msg)
MultiPublish ==
    /\ Len(multiCalls) < MaxMultiCalls
    /\ \E msg \in Msgs, results \in [1 .. nPubs -> PubResults] :
          LET out == MultiPublishFn(nPubs, msg, results)
          IN  multiCalls' = Append(multiCalls,
                  [msg |-> msg, results |-> results,
                   calls |-> out.calls, ret |-> out.ret])
    /\ UNCHANGED <<nPubs, batchVars, transformVars, retryVars>>

\* --------------------------------------------------- TransformPublisher
\* strings a TransformFunc may produce
TStrs == Msgs \cup {"A"}
\* the total TransformFuncs over the messages
TransformFuncs == [Msgs -> TStrs]
\* the identity TransformFunc
Identity == [m \in Msgs |-> m]

\* mutant of TransformArg: the message is forwarded untransformed
UntransformedArg(f, msg) == msg

\* tfn(msg)
TransformArg(f, msg) == f[msg]

\* The PublishFn closure of TransformPublisher; inner is what p.Publish returns
TransformPublishFn(f, msg, inner) ==
    [calls |-> <<[arg |-> TransformArg(f, msg), result |-> inner]>>,
     ret   |-> inner]

\* TransformPublisher(p, tfn)
InitTransform ==
    /\ tfn \in TransformFuncs
    /\ transformCalls = <<>>

\* one call tp.Publish(msg)
TransformPublish ==
    /\ Len(transformCalls) < MaxTransformCalls
    /\ \E msg \in Msgs, inner \in PubResults :
          LET out == TransformPublishFn(tfn, msg, inner)
          IN  transformCalls' = Append(transformCalls,
                  [msg |-> msg, calls |-> out.calls, ret |-> out.ret])
    /\ UNCHANGED <<tfn, batchVars, multiVars, retryVars>>

\* ------------------------------------------------------ RetryHTTPClient
\* mutant of LoopCond: one attempt too many
LoopCondInclusive(i, n) == i <= n

\* i < retries
LoopCond(i, n) == i < n

\* mutant of AttemptFailed: a successful attempt is retried as well
AlwaysFailed(err) == TRUE

\* err != nil after c.Do(req)
AttemptFailed(err) == err # Nil

\* mutant of AssignErr: the first error is kept
KeepFirstErr(old, new) == IF old = Nil THEN new ELSE old

\* res, err = c.Do(req) overwrites err
AssignErr(old, new) == new

\* The for loop of RetryHTTPClient's DoFn from iteration i on (0-based);
\* script[i + 1] is what the (i+1)-th c.Do(req) returns, err the current
\* value of the local err, attempts the calls made so far.
RECURSIVE RetryLoop(_, _, _, _, _, _)
RetryLoop(i, n, req, script, err, attempts) ==
    IF ~LoopCond(i, n) THEN [attempts |-> attempts, res |-> Nil, err |-> err]
    ELSE LET got  == script[i + 1]
             made == Append(attempts,
                        [arg |-> req, res |-> got.res, err |-> got.err])
             e    == AssignErr(err, got.err)
         IN  IF AttemptFailed(e)
             THEN RetryLoop(i + 1, n, req, script, e, made)
             ELSE [attempts |-> made, res |-> got.res, err |-> Nil]

\* The DoFn closure of RetryHTTPClient: var res, err start nil
RetryDoFn(n, req, script) == RetryLoop(0, n, req, script, Nil, <<>>)

\* number of attempts a call with this retries value is meant to make
ScriptLen(n) == IF n > 0 THEN n ELSE 0

\* RetryHTTPClient(c, retries): any int is accepted
InitRetry ==
    /\ retries \in -1 .. MaxRetries
    /\ doCalls = <<>>

\* one call rc.Do(req)
RetryDo ==
    /\ Len(doCalls) < MaxDoCalls
    /\ \E req \in Reqs, script \in [1 .. ScriptLen(retries) -> DoResults],
          extra \in DoResults :
          \* script[k] is what the k-th c.Do(req) of this call returns, extra
          \* what one more c.Do(req) would return
          LET out == RetryDoFn(retries, req, Append(script, extra))
          IN  doCalls' = Append(doCalls,
                  [req |-> req, script |-> script, attempts |-> out.attempts,
                   res |-> out.res, err |-> out.err])
    /\ UNCHANGED <<retries, batchVars, multiVars, transformVars>>

\* ------------------------------------------------------- specifications
\* a decorator that is constructed but not exercised
IdleBatch == batchSize = 1 /\ msgs = <<>> /\ batchCalls = <<>>
IdleMulti == nPubs = 0 /\ multiCalls = <<>>
IdleTransform == tfn = Identity /\ transformCalls = <<>>
IdleRetry == retries = 1 /\ doCalls = <<>>

InitB == InitBatch /\ IdleMulti /\ IdleTransform /\ IdleRetry
NextB == BatchPublish
SpecBatch == InitB /\ [][NextB]_vars

InitM == InitMulti /\ IdleBatch /\ IdleTransform /\ IdleRetry
NextM == MultiPublish
SpecMulti == InitM /\ [][NextM]_vars

InitT == InitTransform /\ IdleBatch /\ IdleMulti /\ IdleRetry
NextT == TransformPublish
SpecTransform == InitT /\ [][NextT]_vars

InitR == InitRetry /\ IdleBatch /\ IdleMulti /\ IdleTransform
NextR == RetryDo
SpecRetry == InitR /\ [][NextR]_vars

\* =============================================================== claims

\* the inputs of Publish calls from .. to on the BatchPublisher, folded left
\* to right with the delimiter between them
RECURSIVE Aggregate(_, _, _)
Aggregate(calls, from, to) ==
    IF to = from THEN calls[to].msg
    ELSE Aggregate(calls, from, to - 1) \o "," \o calls[to].msg

\* C1: for a BatchPublisher with batchSize N >= 1, each of the first N-1
\* Publish calls returns nil without calling p.Publish, and the N-th call
\* calls p.Publish exactly once and returns what that call returned.
C1_FirstBatch ==
    batchSize >= 1 =>
        \A i \in 1 .. Len(batchCalls) :
            /\ i < batchSize =>
                  /\ batchCalls[i].ret = Nil
                  /\ batchCalls[i].calls = <<>>
            /\ i = batchSize =>
                  /\ Len(batchCalls[i].calls) = 1
                  /\ batchCalls[i].ret = batchCalls[i].calls[1].result

\* a batch of three whose flushing call returned the inner error
C1_Witness ==
    /\ batchSize = 3
    /\ Len(batchCalls) = 3
    /\ batchCalls[1].calls = <<>> /\ batchCalls[2].calls = <<>>
    /\ Len(batchCalls[3].calls) = 1
    /\ batchCalls[3].ret = "e2"

\* C2: the Publish call that brings the buffer to batchSize messages leaves
\* the buffer empty, so that for every k >= 1 the k*N-th call forwards one
\* aggregate made of the inputs of calls (k-1)*N+1 .. k*N.
C2_BufferEmptiedOnFlush ==
    batchSize >= 1 =>
        /\ (Len(batchCalls) > 0 /\ batchCalls[Len(batchCalls)].calls # <<>>)
              => msgs = <<>>
        /\ \A i \in 1 .. Len(batchCalls) :
              i % batchSize = 0 =>
                  /\ Len(batchCalls[i].calls) = 1
                  /\ batchCalls[i].calls[1].arg =
                         Aggregate(batchCalls, i - batchSize + 1, i)

\* C3: between two Publish calls a BatchPublisher with batchSize N >= 1
\* holds at most N buffered messages.
C3_BufferAtMostBatchSize ==
    batchSize >= 1 => Len(msgs) <= batchSize

\* C4: whenever a BatchPublisher with batchSize N forwards a message, it is
\* the single message made of the N latest inputs joined with "," in call
\* order.
C4_AggregateInCallOrder ==
    \A i \in 1 .. Len(batchCalls) :
        batchCalls[i].calls # <<>> =>
            /\ Len(batchCalls[i].calls) = 1
            /\ batchSize >= 1
            /\ i >= batchSize
            /\ batchCalls[i].calls[1].arg =
                   Aggregate(batchCalls, i - batchSize + 1, i)

\* inputs "b", "a,b", "a" were forwarded as one message "b,a,b,a"
C4_Witness ==
    /\ batchSize = 3
    /\ Len(batchCalls) >= 3
    /\ batchCalls[1].msg = "b" /\ batchCalls[2].msg = "a,b"
    /\ batchCalls[3].msg = "a"
    /\ batchCalls[3].calls # <<>>
    /\ batchCalls[3].calls[1].arg = "b,a,b,a"

\* index of the first publisher scripted to fail, 0 if none is
FirstFailing(results) ==
    IF \E j \in DOMAIN results : results[j] # Nil
    THEN CHOOSE j \in DOMAIN results :
            /\ results[j] # Nil
            /\ \A m \in 1 .. j - 1 : results[m] = Nil
    ELSE 0

\* C5: if pj is the first publisher of a MultiPublisher whose Publish fails,
\* exactly p1..pj are invoked, once each and in order, none after pj, and the
\* error returned is pj's.
C5_MultiStopsAtFirstError ==
    \A c \in 1 .. Len(multiCalls) :
        LET call == multiCalls[c]
            j    == FirstFailing(call.results)
        IN  j # 0 =>
                /\ Len(call.calls) = j
                /\ \A m \in 1 .. j : call.calls[m].pub = m
                /\ call.ret = call.results[j]

\* the second of three publishers failed, the third would have failed too
C5_Witness ==
    /\ nPubs = 3
    /\ Len(multiCalls) >= 1
    /\ multiCalls[1].results = <<Nil, "e1", "e2">>
    /\ Len(multiCalls[1].calls) = 2
    /\ multiCalls[1].ret = "e1"

\* number of the first attempt scripted to succeed, 0 if none is
FirstSuccess(script) ==
    IF \E k \in DOMAIN script : script[k].err = Nil
    THEN CHOOSE k \in DOMAIN script :
            /\ script[k].err = Nil
            /\ \A m \in 1 .. k - 1 : script[m].err # Nil
    ELSE 0

\* C6: for RetryHTTPClient with retries R >= 1, if the first successful
\* attempt is attempt s <= R, Do makes exactly s attempts with the request
\* and returns the s-th attempt's response with a nil error.
C6_RetryStopsAtFirstSuccess ==
    retries >= 1 =>
        \A c \in 1 .. Len(doCalls) :
            LET call == doCalls[c]
                s    == FirstSuccess(call.script)
            IN  s # 0 =>
                    /\ Len(call.attempts) = s
                    /\ \A k \in 1 .. s :
                          /\ call.attempts[k].arg = call.req
                          /\ call.attempts[k].res = call.script[k].res
                          /\ call.attempts[k].err = call.script[k].err
                    /\ call.res = call.script[s].res
                    /\ call.err = Nil

\* retries = 3, the inner client failed twice and then answered "r2"
C6_Witness ==
    /\ retries = 3
    /\ Len(doCalls) >= 1
    /\ doCalls[1].script = <<[res |-> "r1", err |-> "e2"],
                             [res |-> Nil, err |-> "e1"],
                             [res |-> "r2", err |-> Nil]>>
    /\ Len(doCalls[1].attempts) = 3
    /\ doCalls[1].res = "r2"

\* C7: for RetryHTTPClient with retries R >= 1 over an inner client that
\* fails on every attempt, Do makes exactly R attempts and returns a nil
\* response with the error of the R-th attempt.
C7_RetryReturnsLastError ==
    retries >= 1 =>
        \A c \in 1 .. Len(doCalls) :
            LET call == doCalls[c]
            IN  FirstSuccess(call.script) = 0 =>
                    /\ Len(call.attempts) = retries
                    /\ call.res = Nil
                    /\ call.err = call.script[retries].err

\* three failures, the last with another error than the first and a response
C7_Witness ==
    /\ retries = 3
    /\ Len(doCalls) >= 1
    /\ doCalls[1].script = <<[res |-> Nil, err |-> "e1"],
                             [res |-> Nil, err |-> "e1"],
                             [res |-> "r1", err |-> "e2"]>>
    /\ Len(doCalls[1].attempts) = 3
    /\ doCalls[1].res = Nil
    /\ doCalls[1].err = "e2"

\* C8: a retry decorator with zero retries or a batching decorator with zero
\* batch size is rejected at construction, so no call is ever served by one.
C8_ZeroConfigRejected ==
    /\ retries = 0 => doCalls = <<>>
    /\ batchSize = 0 => batchCalls = <<>>

\* C9: TransformPublisher calls p.Publish exactly once, with tfn(msg), and
\* returns what it returned; with the identity it forwards msg itself.
C9_TransformForwards ==
    \A c \in 1 .. Len(transformCalls) :
        LET call == transformCalls[c]
        IN  /\ Len(call.calls) = 1
            /\ call.calls[1].arg = tfn[call.msg]
            /\ call.ret = call.calls[1].result
            /\ tfn = Identity => call.calls[1].arg = call.msg

\* "a" was forwarded as "A" and the inner error came back
C9_Witness ==
    /\ tfn["a"] = "A"
    /\ Len(transformCalls) >= 1
    /\ transformCalls[1].msg = "a"
    /\ transformCalls[1].calls = <<[arg |-> "A", result |-> "e1"]>>
    /\ transformCalls[1].ret = "e1"

\* C10: for RetryHTTPClient with retries R <= 0, Do never calls c.Do and
\* returns a nil response with a nil error.
C10_ZeroRetriesReturnsNothing ==
    retries <= 0 =>
        \A c \in 1 .. Len(doCalls) :
            /\ doCalls[c].attempts = <<>>
            /\ doCalls[c].res = Nil
            /\ doCalls[c].err = Nil

\* a Do call completed on a client built with zero retries
C10_Witness ==
    /\ retries = 0
    /\ Len(doCalls) >= 1
    /\ doCalls[1].attempts = <<>>
    /\ doCalls[1].res = Nil /\ doCalls[1].err = Nil

\* C11: when every publisher of a MultiPublisher succeeds, p1..pk are each
\* invoked exactly once, in argument order, with the unmodified msg, and the
\* call returns nil; with k = 0 nothing is invoked and nil is returned.
C11_MultiDeliversToAll ==
    \A c \in 1 .. Len(multiCalls) :
        LET call == multiCalls[c]
        IN  FirstFailing(call.results) = 0 =>
                /\ Len(call.calls) = nPubs
                /\ \A m \in 1 .. nPubs :
                      /\ call.calls[m].pub = m
                      /\ call.calls[m].arg = call.msg
                      /\ call.calls[m].result = Nil
                /\ call.ret = Nil

\* three succeeding publishers all received "a,b"
C11_Witness ==
    /\ nPubs = 3
    /\ Len(multiCalls) >= 1
    /\ multiCalls[1].msg = "a,b"
    /\ multiCalls[1].results = <<Nil, Nil, Nil>>
    /\ Len(multiCalls[1].calls) = 3
    /\ multiCalls[1].calls[3] = [pub |-> 3, arg |-> "a,b", result |-> Nil]
    /\ multiCalls[1].ret = Nil

====
